---- MODULE Spec2Model ----
(***************************************************************************)
(* Model of scripts/parse_main_2subfiles.py: a script that reads a table   *)
(* of contents (toc_main.txt) and a LaTeX source (main.tex), writes one    *)
(* subfile per entry of LABEL_TO_FILENAME and a master file main_w_sub.tex.*)
(*                                                                         *)
(* Text is modelled as a sequence of tokens (strings): a token is a        *)
(* whitespace character, a comma, or a run of other characters; a line is  *)
(* cut so that each marker the script searches for is a token of its own.  *)
(* A file is a sequence of lines, a line a sequence of tokens that ends    *)
(* with the "\n" token, as readlines() and iteration over a file give it.  *)
(***************************************************************************)
EXTENDS Integers, Sequences, FiniteSets, TLC

\* ------------------------------------------------------------------------
\* Bounds of the model
\* ------------------------------------------------------------------------
MaxRecs == 3        \* records in a generated toc_main.txt
MaxGap == 1         \* text lines that follow each heading of main.tex
MaxTokens == 6      \* tokens of the free line of toc_main.txt in SpecParse

\* ------------------------------------------------------------------------
\* Python built-ins used by the script
\* ------------------------------------------------------------------------
Whitespace == {" ", "\t", "\n"}

Min(a, b) == IF a <= b THEN a ELSE b

Max(a, b) == IF a >= b THEN a ELSE b

\* float('inf'): larger than every line number; inf - 1 = inf, min(inf, n) = n
Inf == 1000000

PyMinus1(x) == IF x = Inf THEN Inf ELSE x - 1

\* decimal numerals: str(n) and int(s) are the two directions of this table
Numerals == <<"0", "1", "2", "3", "4", "5", "6", "7", "8", "9", "10", "11", "12",
              "13", "14", "15", "16", "17", "18", "19", "20", "21", "22", "23", "24",
              "25", "26", "27", "28", "29", "30">>

PyStr(n) == Numerals[n + 1]

\* int(s) succeeds on a string that is one decimal numeral, and raises
\* ValueError on the empty string, on a word and on "1 2"
IsIntLiteral(s) == Len(s) = 1 /\ \E n \in 1..Len(Numerals) : Numerals[n] = s[1]

PyInt(s) == (CHOOSE n \in 1..Len(Numerals) : Numerals[n] = s[1]) - 1

RECURSIVE LStrip(_)
LStrip(s) == IF s # <<>> /\ Head(s) \in Whitespace THEN LStrip(Tail(s)) ELSE s

RECURSIVE RStrip(_)
RStrip(s) ==
    IF s # <<>> /\ s[Len(s)] \in Whitespace THEN RStrip(SubSeq(s, 1, Len(s) - 1)) ELSE s

\* str.strip()
Strip(s) == RStrip(LStrip(s))

\* str.split(','): the pieces between the commas, "" included
RECURSIVE SplitComma(_, _)
SplitComma(s, cur) ==
    IF s = <<>> THEN <<cur>>
    ELSE IF Head(s) = "," THEN <<cur>> \o SplitComma(Tail(s), <<>>)
    ELSE SplitComma(Tail(s), Append(cur, Head(s)))

\* s.startswith(prefix) for a prefix that is one token
StartsWith(s, tok) == s # <<>> /\ Head(s) = tok

\* `tok in s` for a token
Contains(s, tok) == \E p \in 1..Len(s) : s[p] = tok

\* seq[a:b] for 0-based a, b, negative indices counted from the end
PyIndex(i, n) == IF i < 0 THEN Max(i + n, 0) ELSE Min(i, n)

PySlice(s, a, b) ==
    LET lo == PyIndex(a, Len(s))
        hi == PyIndex(b, Len(s))
    IN IF lo < hi THEN SubSeq(s, lo + 1, hi) ELSE <<>>

\* ------------------------------------------------------------------------
\* Configuration
\* ------------------------------------------------------------------------
TOC_FILE == <<"toc_main.txt">>

MAIN_TEX == <<"main.tex">>

OUTPUT_MAIN == <<"main_w_sub.tex">>

SECTIONS_DIR == <<"sections">>

\* two of the eleven entries of the table, in the table's order; a file name
\* is the tokens <<stem, ".tex">>
LabelOrder == << <<"significance_of_study">>, <<"sec:Atlas_LAN">> >>

LABEL_TO_FILENAME ==
    (<<"significance_of_study">> :> <<"significance_of_study", ".tex">>)
    @@ (<<"sec:Atlas_LAN">> :> <<"hardware", ".tex">>)

\* ------------------------------------------------------------------------
\* TexSection and parse_toc
\* ------------------------------------------------------------------------
TexSection(level, title, label, line_num) ==
    [level |-> level, title |-> title, label |-> label, line_num |-> PyInt(line_num)]

\* variant: the fields are not stripped
TocPartsUnstripped(line) == SplitComma(Strip(line), <<>>)

\* the fields of one line of the toc: [p.strip() for p in line.split(',')]
TocParts(line) ==
    LET raw == SplitComma(Strip(line), <<>>)
    IN [i \in 1..Len(raw) |-> Strip(raw[i])]

\* the loop of parse_toc over the remaining lines; ok = FALSE when int() raised
RECURSIVE ParseLines(_, _)
ParseLines(rest, acc) ==
    IF rest = <<>> THEN [ok |-> TRUE, sections |-> acc]
    ELSE IF Strip(Head(rest)) = <<>> THEN ParseLines(Tail(rest), acc)
    ELSE LET parts == TocParts(Head(rest))
         IN IF Len(parts) = 4
            THEN IF IsIntLiteral(parts[4])
                 THEN ParseLines(Tail(rest),
                                 Append(acc, TexSection(parts[1], parts[2], parts[3], parts[4])))
                 ELSE [ok |-> FALSE, sections |-> <<>>]
            ELSE ParseLines(Tail(rest), acc)

parse_toc(toc) == ParseLines(toc, <<>>)

\* ------------------------------------------------------------------------
\* find_section_content_range
\* ------------------------------------------------------------------------
level_hierarchy == << <<"chapter">>, <<"section">>, <<"subsection">>, <<"subsubsection">> >>

InHierarchy(level) == \E n \in 1..Len(level_hierarchy) : level_hierarchy[n] = level

\* level_hierarchy.index(level), 0-based; raises ValueError outside the list
HierarchyIndex(level) ==
    (CHOOSE n \in 1..Len(level_hierarchy) : level_hierarchy[n] = level) - 1

\* variant: only a record at a higher level ends the range
StopsScanStrict(next_level_idx, current_level_idx) == next_level_idx < current_level_idx

\* "Stop if we hit a section at same or higher level"
StopsScan(next_level_idx, current_level_idx) == next_level_idx <= current_level_idx

\* the for loop over range(section_idx + 1, len(sections)); i is 1-based here
RECURSIVE ScanForEnd(_, _, _)
ScanForEnd(secs, i, current_level_idx) ==
    IF i > Len(secs) THEN [ok |-> TRUE, end |-> Inf]
    ELSE IF ~InHierarchy(secs[i].level) THEN [ok |-> FALSE, end |-> 0]
    ELSE IF StopsScan(HierarchyIndex(secs[i].level), current_level_idx)
         THEN [ok |-> TRUE, end |-> secs[i].line_num - 1]
    ELSE ScanForEnd(secs, i + 1, current_level_idx)

\* variant: every record's level is looked up before the scan
find_section_content_range_validating(secs, section_idx) ==
    IF \A i \in 1..Len(secs) : InHierarchy(secs[i].level)
    THEN LET r == ScanForEnd(secs, section_idx + 1, HierarchyIndex(secs[section_idx].level))
         IN [ok |-> r.ok, start |-> secs[section_idx].line_num, end |-> r.end]
    ELSE [ok |-> FALSE, start |-> secs[section_idx].line_num, end |-> 0]

\* section_idx is 1-based; ok = FALSE when level_hierarchy.index raised
find_section_content_range(secs, section_idx) ==
    LET section == secs[section_idx]
    IN IF ~InHierarchy(section.level)
       THEN [ok |-> FALSE, start |-> section.line_num, end |-> 0]
       ELSE LET r == ScanForEnd(secs, section_idx + 1, HierarchyIndex(section.level))
            IN [ok |-> r.ok, start |-> section.line_num, end |-> r.end]

\* ------------------------------------------------------------------------
\* extract_lines, create_subfile
\* ------------------------------------------------------------------------
\* variant: the end line is excluded
extract_lines_exclusive(lns, start, end) ==
    PySlice(lns, start - 1, IF end = Inf THEN Len(lns) ELSE Min(end - 1, Len(lns)))

extract_lines(lns, start, end) ==
    LET start_idx == start - 1
        end_idx == IF end = Inf THEN Len(lns) ELSE Min(end, Len(lns))
    IN PySlice(lns, start_idx, end_idx)

SubfileHeader ==
    << <<"\\documentclass[../main.tex]{subfiles}\n">>,
       <<"\\graphicspath{{\\subfix{../Images/}}}\n">>,
       <<"\\begin{document}\n">>,
       <<"\n">> >>

SubfileFooter == << <<"\n\\end{document}\n">> >>

SubfilePath(filename) == SECTIONS_DIR \o filename

\* open(path, 'w') and writelines: the file is created or replaced
WriteFile(files, path, content) == (path :> content) @@ files

\* variant: the file is opened with 'a'
create_subfile_append(files, filename, content) ==
    WriteFile(files, SubfilePath(filename),
              (IF SubfilePath(filename) \in DOMAIN files THEN files[SubfilePath(filename)]
               ELSE <<>>)
              \o SubfileHeader \o content \o SubfileFooter)

\* the file system after create_subfile(filename, content)
create_subfile(files, filename, content) ==
    WriteFile(files, SubfilePath(filename), SubfileHeader \o content \o SubfileFooter)

\* ------------------------------------------------------------------------
\* generate_main_w_sub
\* ------------------------------------------------------------------------
IsBeginDocument(line) == StartsWith(Strip(line), "\\begin{document}")

IsChapterLine(line) == StartsWith(Strip(line), "\\chapter{")

IsMainmatter(line) == Contains(line, "\\mainmatter")

IsBackmatterMarker(line) == Contains(line, "\\backmatter") \/ Contains(line, "\\bibliography")

\* 1-indexed line of the first \begin{document}, 1 when there is none
find_preamble_end(lns) ==
    IF \E i \in 1..Len(lns) : IsBeginDocument(lns[i])
    THEN CHOOSE i \in 1..Len(lns) :
            IsBeginDocument(lns[i]) /\ \A j \in 1..(i - 1) : ~IsBeginDocument(lns[j])
    ELSE 1

find_frontmatter_end(lns) ==
    IF \E i \in 1..Len(lns) : IsMainmatter(lns[i]) \/ IsChapterLine(lns[i])
    THEN CHOOSE i \in 1..Len(lns) :
            /\ IsMainmatter(lns[i]) \/ IsChapterLine(lns[i])
            /\ \A j \in 1..(i - 1) : ~(IsMainmatter(lns[j]) \/ IsChapterLine(lns[j]))
    ELSE find_preamble_end(lns)

\* Step 1: the preamble, the subfiles package and \begin{document}
PreambleOutput(lns) ==
    PySlice(lns, 0, find_preamble_end(lns) - 1)
    \o << <<"\\usepackage{subfiles} % Best loaded last in the preamble\n">>,
          <<"\n\\begin{document}\n\n">> >>

\* Step 2: the front matter and \mainmatter
FrontmatterOutput(lns) ==
    extract_lines(lns, find_preamble_end(lns) + 1, find_frontmatter_end(lns) - 1)
    \o << <<"\n\\mainmatter\n\\newpage\n">> >>

\* 1-based indices of the chapter records, in order
RECURSIVE IndicesFrom(_, _, _)
IndicesFrom(secs, i, level) ==
    IF i > Len(secs) THEN <<>>
    ELSE IF secs[i].level = level THEN <<i>> \o IndicesFrom(secs, i + 1, level)
    ELSE IndicesFrom(secs, i + 1, level)

ChapterIndices(secs) == IndicesFrom(secs, 1, <<"chapter">>)

\* index of the next chapter record, len(sections) (here Len + 1) after the last
NextChapterIdx(secs, chapter_indices, ch) ==
    IF ch + 1 <= Len(chapter_indices) THEN chapter_indices[ch + 1] ELSE Len(secs) + 1

\* indices of the 'section' records between a chapter and the next one
ChapterSections(secs, chapter_idx, next_chapter_idx) ==
    SelectSeq(IndicesFrom(secs, chapter_idx + 1, <<"section">>),
              LAMBDA i : i < next_chapter_idx)

\* those of them whose label is a key of LABEL_TO_FILENAME
SubfileSections(secs, chapter_sections) ==
    SelectSeq(chapter_sections, LAMBDA i : secs[i].label \in DOMAIN LABEL_TO_FILENAME)

ChapterHeading(chapter) ==
    IF chapter.label # <<>>
    THEN << <<"\\chapter{">> \o chapter.title \o <<"} \\label{">> \o chapter.label
            \o <<"}\n\n">> >>
    ELSE << <<"\\chapter{">> \o chapter.title \o <<"}\n\n">> >>

\* filename.replace('.tex', '')
StripTexSuffix(filename) == SelectSeq(filename, LAMBDA t : t # ".tex")

SubfileDirective(label) ==
    <<"\\subfile{sections/">> \o StripTexSuffix(LABEL_TO_FILENAME[label]) \o <<"}\n">>

\* variant: one directive per entry of LABEL_TO_FILENAME
SubfileCommandsAllEntries(secs, subfile_sections) ==
    [n \in 1..Len(LabelOrder) |-> SubfileDirective(LabelOrder[n])]

\* "Add subfile commands": one directive per section of subfile_sections
SubfileCommands(secs, subfile_sections) ==
    [n \in 1..Len(subfile_sections) |-> SubfileDirective(secs[subfile_sections[n]].label)]

DropChapterLines(lns) == SelectSeq(lns, LAMBDA l : ~IsChapterLine(l))

\* the body of the loop of Step 3 for the ch-th chapter
ChapterOutput(lns, secs, chapter_indices, ch) ==
    LET chapter_idx == chapter_indices[ch]
        chapter == secs[chapter_idx]
        next_chapter_idx == NextChapterIdx(secs, chapter_indices, ch)
        chapter_sections == ChapterSections(secs, chapter_idx, next_chapter_idx)
        subfile_sections == SubfileSections(secs, chapter_sections)
    IN ChapterHeading(chapter) \o
       IF subfile_sections # <<>>
       THEN LET first_section_line == secs[chapter_sections[1]].line_num
                intro == extract_lines(lns, chapter.line_num, PyMinus1(first_section_line))
            IN DropChapterLines(intro) \o << <<"\n">> >>
               \o SubfileCommands(secs, subfile_sections)
               \o << <<"\n">> >>
       ELSE LET end_line == IF next_chapter_idx <= Len(secs)
                            THEN secs[next_chapter_idx].line_num - 1
                            ELSE Len(lns)
                content == extract_lines(lns, chapter.line_num, end_line)
            IN DropChapterLines(content) \o << <<"\n">> >>

RECURSIVE ChaptersOutput(_, _, _, _)
ChaptersOutput(lns, secs, chapter_indices, ch) ==
    IF ch > Len(chapter_indices) THEN <<>>
    ELSE ChapterOutput(lns, secs, chapter_indices, ch)
         \o ChaptersOutput(lns, secs, chapter_indices, ch + 1)

\* the while loop of Step 4: the next chapter record from index i on
RECURSIVE NextItemIdx(_, _)
NextItemIdx(secs, i) ==
    IF i <= Len(secs) /\ secs[i].level # <<"chapter">> THEN NextItemIdx(secs, i + 1) ELSE i

\* "Find backmatter manually": the first marker line of the file
FirstMarkerLine(lns) ==
    IF \E i \in 1..Len(lns) : IsBackmatterMarker(lns[i])
    THEN CHOOSE i \in 1..Len(lns) :
            IsBackmatterMarker(lns[i]) /\ \A j \in 1..(i - 1) : ~IsBackmatterMarker(lns[j])
    ELSE Len(lns)

\* backmatter_start of Step 4 (1-indexed line)
BackmatterStart(lns, secs, chapter_indices) ==
    LET next_item_idx == NextItemIdx(secs, chapter_indices[Len(chapter_indices)] + 1)
    IN IF next_item_idx <= Len(secs)
       THEN secs[next_item_idx].line_num
       ELSE FirstMarkerLine(lns)

\* Step 4: lines[backmatter_start-1:]
BackmatterOutput(lns, secs, chapter_indices) ==
    IF chapter_indices # <<>>
    THEN LET a == BackmatterStart(lns, secs, chapter_indices) - 1
         IN IF PyIndex(a, Len(lns)) < Len(lns)
            THEN SubSeq(lns, PyIndex(a, Len(lns)) + 1, Len(lns))
            ELSE <<>>
    ELSE <<>>

\* the list `output` that generate_main_w_sub writes to OUTPUT_MAIN
MasterOutput(lns, secs) ==
    PreambleOutput(lns) \o FrontmatterOutput(lns)
    \o ChaptersOutput(lns, secs, ChapterIndices(secs), 1)
    \o BackmatterOutput(lns, secs, ChapterIndices(secs))

generate_main_w_sub(files, lns, secs) == WriteFile(files, OUTPUT_MAIN, MasterOutput(lns, secs))

\* ------------------------------------------------------------------------
\* State
\* ------------------------------------------------------------------------
VARIABLES
    fs,         \* the files on disk: path -> sequence of lines
    pc,         \* position of the run in main(): start, read, subfiles, done, aborted
    run,        \* 1 in the first run of the tool, 2 in the run that follows it
    sections,   \* the list parse_toc returned
    lines,      \* the list read_main_tex returned
    k,          \* position of the loop of main() in LABEL_TO_FILENAME.items()
    stdout,     \* the lines printed by the run
    error,      \* the exception that ended the run, "none" otherwise
    lastRange,  \* the last call of find_section_content_range: index and result
    fsRun1      \* the files on disk when the first run ended

vars == <<fs, pc, run, sections, lines, k, stdout, error, lastRange, fsRun1>>

NoRange == [idx |-> 0, ok |-> TRUE, start |-> 0, end |-> 0]

\* ------------------------------------------------------------------------
\* Input files
\* ------------------------------------------------------------------------
LevelWords == {"chapter", "section", "subsection", "part"}

LabelChoices == {<<>>, <<"significance_of_study">>, <<"sec:Atlas_LAN">>}

Titles == <<"T1", "T2", "T3", "T4", "T5", "T6">>

HeadingCommand ==
    [w \in LevelWords |->
        CASE w = "chapter" -> "\\chapter{"
          [] w = "section" -> "\\section{"
          [] w = "subsection" -> "\\subsection{"
          [] OTHER -> "\\part{"]

\* the headings of a document: level and label of each, labels not repeated
HeadingChoices(n) ==
    {hs \in [1..n -> LevelWords \X LabelChoices] :
        \A i, j \in 1..n : (i # j /\ hs[i][2] # <<>>) => hs[i][2] # hs[j][2]}

TextLine(p) == <<"text", PyStr(p), "\n">>

\* what comes before the first heading
Prefixes ==
    { << <<"\\documentclass{book}", "\n">>, <<"\\begin{document}", "\n">>,
         <<"\\maketitle", "\n">>, <<"\\mainmatter", "\n">> >>,
      << <<"\\bibliography", "style{plain}", "\n">>, <<"\\begin{document}", "\n">> >>,
      <<>> }

\* what comes after the last chapter
Suffixes ==
    { <<>>,
      << <<"\\backmatter", "\n">>, <<"\\bibliography", "{refs}", "\n">>,
         <<"\\end{document}", "\n">> >> }

\* main.tex: prefix, then each heading followed by gap text lines, then suffix
DocLines(prefix, hs, gap, suffix) ==
    prefix
    \o [p \in 1..(Len(hs) * (gap + 1)) |->
           LET i == ((p - 1) \div (gap + 1)) + 1
           IN IF (p - 1) % (gap + 1) = 0
              THEN <<HeadingCommand[hs[i][1]], Titles[i], "}", "\n">>
              ELSE TextLine(Len(prefix) + p)]
    \o suffix

\* toc_main.txt of that document: "level, title, label, line" per heading
TocLines(prefix, hs, gap) ==
    [i \in 1..Len(hs) |->
        <<hs[i][1], ",", " ", Titles[i], ",", " ">> \o hs[i][2]
        \o <<",", " ", PyStr(Len(prefix) + (i - 1) * (gap + 1) + 1), "\n">>]

\* the last cut lines of main.tex were deleted after the toc was made
Truncate(lns, cut) == SubSeq(lns, 1, Max(Len(lns) - cut, 0))

InitRest ==
    /\ pc = "start"
    /\ run = 1
    /\ sections = <<>>
    /\ lines = <<>>
    /\ k = 0
    /\ stdout = <<>>
    /\ error = "none"
    /\ lastRange = NoRange
    /\ fsRun1 = <<>>

\* a document and its toc, or a document that lost its tail since
InitGenerated ==
    /\ \E n \in 0..MaxRecs, prefix \in Prefixes, suffix \in Suffixes, stale \in BOOLEAN,
            gap \in {0, MaxGap} :
         \E hs \in HeadingChoices(n) :
            /\ stale => suffix = <<>> /\ prefix # <<>>
            /\ fs = (TOC_FILE :> TocLines(prefix, hs, gap))
                    @@ (MAIN_TEX :> Truncate(DocLines(prefix, hs, gap, suffix),
                                             IF stale THEN gap + 2 ELSE 0))
    /\ InitRest

\* the scenario of the specification: three records and a 12-line source
ScenarioToc ==
    << <<"chapter", ",", "Intro", ",", "ch1", ",", "1", "\n">>,
       <<"section", ",", "Background", ",", "significance_of_study", ",", "3", "\n">>,
       <<"chapter", ",", "Methods", ",", "ch2", ",", "10", "\n">> >>

ScenarioTex ==
    [p \in 1..12 |->
        CASE p = 1 -> <<"\\chapter{", "Intro", "}", "\n">>
          [] p = 3 -> <<"\\section{", "Background", "}", "\n">>
          [] p = 10 -> <<"\\chapter{", "Methods", "}", "\n">>
          [] OTHER -> TextLine(p)]

InitScenario ==
    /\ fs = (TOC_FILE :> ScenarioToc) @@ (MAIN_TEX :> ScenarioTex)
    /\ InitRest

Init == InitGenerated \/ InitScenario

\* inputs of the parser: one line of at most MaxTokens arbitrary tokens, alone
\* or next to a well-formed line
TocAlphabet == {" ", ",", "x", "7"}

FreeTocLines ==
    {t \o <<"\n">> : t \in UNION {[1..n -> TocAlphabet] : n \in 0..MaxTokens}}

WellFormedTocLine == <<"section", ",", " ", "T1", ",", "sec:Atlas_LAN", ",", "3", " ", "\n">>

InitParse ==
    /\ \E l \in FreeTocLines :
         \E toc \in {<<l>>, <<l, WellFormedTocLine>>, <<WellFormedTocLine, l>>} :
            fs = (TOC_FILE :> toc) @@ (MAIN_TEX :> ScenarioTex)
    /\ InitRest

\* ------------------------------------------------------------------------
\* main()
\* ------------------------------------------------------------------------
Banner == << <<"LaTeX Subfile Splitter">>, <<"==================================================">> >>

\* lines 241-250: the banner, SECTIONS_DIR.mkdir(exist_ok=True), parse_toc
ParseToc ==
    /\ pc = "start"
    /\ LET r == parse_toc(fs[TOC_FILE])
           withDir == IF SECTIONS_DIR \in DOMAIN fs THEN fs ELSE (SECTIONS_DIR :> <<>>) @@ fs
       IN /\ fs' = withDir
          /\ IF r.ok
             THEN /\ sections' = r.sections
                  /\ pc' = "read"
                  /\ error' = error
                  /\ stdout' = stdout \o Banner
                        \o << <<"\n1. Parsing toc_main.txt...">>,
                              <<"   Found ", PyStr(Len(r.sections)), " sections">> >>
             ELSE /\ sections' = sections
                  /\ pc' = "aborted"
                  /\ error' = "ValueError: invalid literal for int()"
                  /\ stdout' = stdout \o Banner \o << <<"\n1. Parsing toc_main.txt...">> >>
    /\ UNCHANGED <<run, lines, k, lastRange, fsRun1>>

\* lines 253-258: read_main_tex and the heading of step 3
ReadMainTex ==
    /\ pc = "read"
    /\ lines' = fs[MAIN_TEX]
    /\ stdout' = stdout
          \o << <<"\n2. Reading main.tex...">>,
                <<"   Read ", PyStr(Len(fs[MAIN_TEX])), " lines">>,
                <<"\n3. Generating subfiles...">> >>
    /\ pc' = "subfiles"
    /\ k' = 1
    /\ UNCHANGED <<fs, run, sections, error, lastRange, fsRun1>>

\* next((i for i, s in enumerate(sections) if s.label == label), None); 0 is None
FindLabel(secs, label) ==
    IF \E i \in 1..Len(secs) : secs[i].label = label
    THEN CHOOSE i \in 1..Len(secs) :
            secs[i].label = label /\ \A j \in 1..(i - 1) : secs[j].label # label
    ELSE 0

WarningLine(label) == <<"  WARNING: Label '">> \o label \o <<"' not found in toc_main.txt">>

CreatedLine(filename) == <<"  Created: ">> \o filename

\* variant: break instead of continue
MissingLabelStops(label) == "stop"

\* what the loop does with an entry whose label is in no record: "warn" skips
\* the entry and goes on with the next one
MissingLabelPolicy(label) == "warn"

\* lines 259-271: one iteration of the loop over LABEL_TO_FILENAME.items()
ProcessEntry ==
    /\ pc = "subfiles"
    /\ k <= Len(LabelOrder)
    /\ LET label == LabelOrder[k]
           filename == LABEL_TO_FILENAME[label]
           section_idx == FindLabel(sections, label)
       IN IF section_idx = 0
          THEN /\ stdout' = Append(stdout, WarningLine(label))
               /\ IF MissingLabelPolicy(label) = "warn"
                  THEN k' = k + 1 /\ pc' = pc
                  ELSE k' = Len(LabelOrder) + 1 /\ pc' = pc
               /\ UNCHANGED <<fs, error, lastRange>>
          ELSE LET r == find_section_content_range(sections, section_idx)
               IN /\ lastRange' = [idx |-> section_idx, ok |-> r.ok,
                                   start |-> r.start, end |-> r.end]
                  /\ IF r.ok
                     THEN /\ fs' = create_subfile(fs, filename,
                                                  extract_lines(lines, r.start, r.end))
                          /\ stdout' = Append(stdout, CreatedLine(filename))
                          /\ k' = k + 1
                          /\ UNCHANGED <<pc, error>>
                     ELSE /\ pc' = "aborted"
                          /\ error' = "ValueError: not in list"
                          /\ UNCHANGED <<fs, stdout, k>>
    /\ UNCHANGED <<run, sections, lines, fsRun1>>

\* lines 274-280: generate_main_w_sub and the closing messages
GenerateMain ==
    /\ pc = "subfiles"
    /\ k > Len(LabelOrder)
    /\ fs' = generate_main_w_sub(fs, lines, sections)
    /\ stdout' = stdout
          \o << <<"\n4. Generating main_w_sub.tex...">>,
                <<"\nCreated: main_w_sub.tex">>,
                <<"\n==================================================">>,
                <<"Complete!">>,
                <<"Created ", PyStr(Len(LabelOrder)), " subfiles in: ">> \o SECTIONS_DIR,
                <<"Created main file: ">> \o OUTPUT_MAIN >>
    /\ pc' = "done"
    /\ UNCHANGED <<run, sections, lines, k, error, lastRange>>
    /\ UNCHANGED fsRun1

\* the tool is run a second time on the files the first run left
Rerun ==
    /\ pc \in {"done", "aborted"}
    /\ run = 1
    /\ run' = 2
    /\ fsRun1' = fs
    /\ pc' = "start"
    /\ sections' = <<>>
    /\ lines' = <<>>
    /\ k' = 0
    /\ stdout' = <<>>
    /\ error' = "none"
    /\ lastRange' = NoRange
    /\ UNCHANGED fs

Next == ParseToc \/ ReadMainTex \/ ProcessEntry \/ GenerateMain \/ Rerun

Spec == Init /\ [][Next]_vars

\* parse_toc alone, on arbitrary lines
SpecParse == InitParse /\ [][ParseToc]_vars

\* ------------------------------------------------------------------------
\* Properties
\* ------------------------------------------------------------------------
SetMin(S) == CHOOSE x \in S : \A y \in S : x <= y

SetMax(S) == CHOOSE x \in S : \A y \in S : x >= y

\* records after i whose rank is at most the rank of record i
Closers(secs, i) ==
    {j \in (i + 1)..Len(secs) :
        /\ InHierarchy(secs[j].level)
        /\ HierarchyIndex(secs[j].level) <= HierarchyIndex(secs[i].level)}

\* line before the first such record, Inf when there is none
RangeEndOf(secs, i) ==
    IF Closers(secs, i) = {} THEN Inf ELSE secs[SetMin(Closers(secs, i))].line_num - 1

\* the lines numbered a..b of lns that exist
LinesBetween(lns, a, b) ==
    [q \in 1..(Min(b, Len(lns)) - a + 1) |-> lns[a + q - 1]]

\* the record main() picks for a label: the first that carries it
RecordsOf(secs, label) == {i \in 1..Len(secs) : secs[i].label = label}

Present(label) == RecordsOf(sections, label) # {}

Master == fs[OUTPUT_MAIN]

\* C1: a range that find_section_content_range returns starts at the record's
\* line and ends one line before the first later record of equal or lower
\* rank, unbounded when there is none; a section directly followed by a
\* section at line L ends at L - 1.
C1_RangeContract ==
    (lastRange.idx # 0 /\ lastRange.ok) =>
        /\ lastRange.start = sections[lastRange.idx].line_num
        /\ lastRange.end = RangeEndOf(sections, lastRange.idx)
        /\ (/\ lastRange.idx < Len(sections)
            /\ sections[lastRange.idx].level = <<"section">>
            /\ sections[lastRange.idx + 1].level = <<"section">>)
           => lastRange.end = sections[lastRange.idx + 1].line_num - 1

C1_Witness ==
    /\ lastRange.idx # 0
    /\ lastRange.ok
    /\ lastRange.idx < Len(sections)
    /\ sections[lastRange.idx].level = <<"section">>
    /\ sections[lastRange.idx + 1].level = <<"section">>
    /\ lastRange.end = sections[lastRange.idx + 1].line_num - 1

\* C2: when a run completes, every entry whose label is in the records has its
\* subfile, and the subfile is the 4-line header, the source lines from the
\* record's line through the end of its range (through the last line when the
\* range is unbounded or passes the end), and the footer; in the scenario with
\* a section at line 3 and a chapter at line 10 these are lines 3 to 9.
C2_SubfileContent ==
    pc = "done" =>
        /\ \A n \in 1..Len(LabelOrder) :
              LET label == LabelOrder[n]
                  path == SubfilePath(LABEL_TO_FILENAME[label])
              IN Present(label) =>
                    LET i == SetMin(RecordsOf(sections, label))
                    IN /\ path \in DOMAIN fs
                       /\ fs[path] = SubfileHeader
                                     \o LinesBetween(lines, sections[i].line_num,
                                                     RangeEndOf(sections, i))
                                     \o SubfileFooter
        /\ fs[TOC_FILE] = ScenarioToc =>
              fs[SubfilePath(<<"significance_of_study", ".tex">>)]
                 = SubfileHeader \o SubSeq(ScenarioTex, 3, 9) \o SubfileFooter

C2_Witness ==
    /\ pc = "done"
    /\ fs[TOC_FILE] = ScenarioToc
    /\ Len(fs[SubfilePath(<<"significance_of_study", ".tex">>)]) = 4 + 7 + 1

WarningsFor(label) == {p \in 1..Len(stdout) : stdout[p] = WarningLine(label)}

\* C4: an entry whose label is in no record gets exactly one warning and no
\* subfile, the loop goes on with the entries after it, and in a run that
\* completes every entry whose label is present has its subfile and the master
\* file is written.
C4_MissingLabelSkipped ==
    /\ \A n \in 1..Len(LabelOrder) :
          (pc \in {"subfiles", "done"} /\ k > n /\ ~Present(LabelOrder[n])) =>
              /\ Cardinality(WarningsFor(LabelOrder[n])) = 1
              /\ SubfilePath(LABEL_TO_FILENAME[LabelOrder[n]]) \notin DOMAIN fs
    /\ pc = "done" =>
          /\ k = Len(LabelOrder) + 1
          /\ OUTPUT_MAIN \in DOMAIN fs
          /\ \A n \in 1..Len(LabelOrder) :
                Present(LabelOrder[n]) =>
                    /\ SubfilePath(LABEL_TO_FILENAME[LabelOrder[n]]) \in DOMAIN fs
                    /\ WarningsFor(LabelOrder[n]) = {}
                    /\ \E p \in 1..Len(stdout) :
                          stdout[p] = CreatedLine(LABEL_TO_FILENAME[LabelOrder[n]])

C4_Witness ==
    /\ pc = "done"
    /\ ~Present(LabelOrder[1])
    /\ Present(LabelOrder[2])
    /\ Cardinality(WarningsFor(LabelOrder[1])) = 1
    /\ SubfilePath(LABEL_TO_FILENAME[LabelOrder[2]]) \in DOMAIN fs

\* C6: when the second run on the same inputs ends, the files on disk and
\* their contents are those the first run left.
C6_Idempotent == (run = 2 /\ pc \in {"done", "aborted"}) => fs = fsRun1

C6_Witness ==
    /\ run = 2
    /\ pc = "done"
    /\ \E n \in 1..Len(LabelOrder) : SubfilePath(LABEL_TO_FILENAME[LabelOrder[n]]) \in DOMAIN fs
    /\ fs = fsRun1

\* a source line occurs in the master file
InMaster(line) == \E q \in 1..Len(Master) : Master[q] = line

\* the range of an entry's record contains line p, and its subfile exists
Extracted(p) ==
    \E n \in 1..Len(LabelOrder) :
        /\ Present(LabelOrder[n])
        /\ SubfilePath(LABEL_TO_FILENAME[LabelOrder[n]]) \in DOMAIN fs
        /\ LET i == SetMin(RecordsOf(sections, LabelOrder[n]))
           IN sections[i].line_num <= p /\ p <= RangeEndOf(sections, i)

ChapterRecords == {c \in 1..Len(sections) : sections[c].level = <<"chapter">>}

\* the lines of chapter record c: from its heading to the line before the next
\* chapter record, or to the end of the file
ChapterLines(c) ==
    {p \in 1..Len(lines) : sections[c].line_num <= p /\ p <= RangeEndOf(sections, c)}

\* the lines of chapter c that the master file has to keep
KeptLines(c) == {p \in ChapterLines(c) : p # sections[c].line_num /\ ~Extracted(p)}

\* C3: in the master file of a completed run, every line of a chapter that is
\* neither the chapter heading nor inside the range of an extracted section is
\* present, and such lines keep their source order.
C3_MasterKeepsTheRest ==
    pc = "done" =>
        \A c \in ChapterRecords :
            /\ \A p \in KeptLines(c) : InMaster(lines[p])
            /\ \A p1, p2 \in KeptLines(c) :
                  p1 < p2 => \E q1, q2 \in 1..Len(Master) :
                                q1 < q2 /\ Master[q1] = lines[p1] /\ Master[q2] = lines[p2]

\* C7 as stated: when an entry's label is in no record, the master file of the
\* completed run contains the inclusion directive of that entry's subfile.
C7_MasterReferencesMissing ==
    pc = "done" =>
        \A n \in 1..Len(LabelOrder) :
            ~Present(LabelOrder[n]) => InMaster(SubfileDirective(LabelOrder[n]))

\* C7, amended: the master file of a completed run contains no inclusion
\* directive for an entry whose label is in no record, and every directive it
\* contains names a subfile that the run created.
C7_MasterReferencesOnlyCreated ==
    pc = "done" =>
        \A n \in 1..Len(LabelOrder) :
            /\ ~Present(LabelOrder[n]) => ~InMaster(SubfileDirective(LabelOrder[n]))
            /\ InMaster(SubfileDirective(LabelOrder[n])) =>
                  /\ SubfilePath(LABEL_TO_FILENAME[LabelOrder[n]]) \in DOMAIN fs
                  /\ \E p \in 1..Len(stdout) :
                        stdout[p] = CreatedLine(LABEL_TO_FILENAME[LabelOrder[n]])

C7_Witness ==
    /\ pc = "done"
    /\ ~Present(LabelOrder[1])
    /\ SubfilePath(LABEL_TO_FILENAME[LabelOrder[1]]) \notin DOMAIN fs
    /\ InMaster(SubfileDirective(LabelOrder[2]))

UnknownLevels == {i \in 1..Len(sections) : ~InHierarchy(sections[i].level)}

\* C8 as stated: a run whose records include a level outside the hierarchy
\* never completes.
C8_UnknownLevelAlwaysAborts == pc = "done" => UnknownLevels = {}

\* the range computation of record i looks up a level outside the hierarchy:
\* that of record i, or that of a later record it reaches before any record of
\* equal or lower rank
LooksUpUnknown(secs, i) ==
    \/ ~InHierarchy(secs[i].level)
    \/ \E m \in (i + 1)..Len(secs) :
          /\ ~InHierarchy(secs[m].level)
          /\ \A j \in (i + 1)..(m - 1) :
                /\ InHierarchy(secs[j].level)
                /\ HierarchyIndex(secs[j].level) > HierarchyIndex(secs[i].level)

\* C8, amended: the run aborts with the lookup failure exactly when the range
\* computation of some entry's record looks up a level outside the hierarchy;
\* a record with such a level that no range computation reaches does not stop
\* the run, and the master file is generated.
C8_AbortsIffLookupReached ==
    pc \in {"done", "aborted"} =>
        /\ (error = "ValueError: not in list") <=>
              \E n \in 1..Len(LabelOrder) :
                  /\ Present(LabelOrder[n])
                  /\ LooksUpUnknown(sections, SetMin(RecordsOf(sections, LabelOrder[n])))
        /\ pc = "aborted" <=> error # "none"
        /\ pc = "done" => OUTPUT_MAIN \in DOMAIN fs

C8_Witness ==
    /\ pc = "done"
    /\ UnknownLevels # {}
    /\ \E n \in 1..Len(LabelOrder) : Present(LabelOrder[n])
    /\ error = "none"

LastChapterLine == sections[SetMax(ChapterRecords)].line_num

MarkersAfterLastChapter ==
    {p \in 1..Len(lines) : IsBackmatterMarker(lines[p]) /\ p > LastChapterLine}

\* C9: when a marker line follows the last chapter record, the back matter
\* appended to the master file is the source from the first such marker to the
\* end of the file.
C9_BackmatterFromMarkerAfterLastChapter ==
    (pc = "done" /\ ChapterRecords # {} /\ MarkersAfterLastChapter # {}) =>
        BackmatterOutput(lines, sections, ChapterIndices(sections))
            = SubSeq(lines, SetMin(MarkersAfterLastChapter), Len(lines))

\* C10: no line of the source occurs more than once in the master file.
C10_NoLineCopiedTwice ==
    pc = "done" =>
        \A p \in 1..Len(lines) :
            Cardinality({q \in 1..Len(Master) : Master[q] = lines[p]}) <= 1

\* ------------------------------------------------------------------------
\* Properties of parse_toc
\* ------------------------------------------------------------------------
Toc == fs[TOC_FILE]

CommasOf(line) == {p \in 1..Len(line) : line[p] = ","}

\* lines with exactly 4 comma-separated fields
FourFieldLines == {i \in 1..Len(Toc) : Cardinality(CommasOf(Toc[i])) = 3}

\* the text without its leading and trailing whitespace
Trimmed(s) ==
    LET NW == {p \in 1..Len(s) : s[p] \notin Whitespace}
    IN IF NW = {} THEN <<>> ELSE SubSeq(s, SetMin(NW), SetMax(NW))

\* position of the n-th comma of a line, 0 before the first field, and the
\* position after the line's end behind the last
FieldBound(line, n) ==
    IF n = 0 THEN 0
    ELSE IF n > Cardinality(CommasOf(line)) THEN Len(line) + 1
    ELSE CHOOSE p \in CommasOf(line) : Cardinality({q \in CommasOf(line) : q < p}) = n - 1

\* the n-th field of a line, trimmed
FieldOf(line, n) ==
    Trimmed(SubSeq(line, FieldBound(line, n - 1) + 1, FieldBound(line, n) - 1))

\* the n-th line with 4 fields
NthFourFieldLine(n) ==
    CHOOSE i \in FourFieldLines : Cardinality({j \in FourFieldLines : j < i}) = n - 1

FieldsCarried ==
    /\ Len(sections) = Cardinality(FourFieldLines)
    /\ \A n \in 1..Len(sections) :
          LET line == Toc[NthFourFieldLine(n)]
          IN /\ sections[n].level = FieldOf(line, 1)
             /\ sections[n].title = FieldOf(line, 2)
             /\ sections[n].label = FieldOf(line, 3)
             /\ <<PyStr(sections[n].line_num)>> = FieldOf(line, 4)

\* C5 as stated: parse_toc returns one record per line with 4 fields, in file
\* order, carrying the trimmed fields, and raises no error.
C5_RecordPerFourFieldLine == pc # "start" => (pc # "aborted" /\ FieldsCarried)

\* C5, amended: if the fourth field of every line with 4 fields is a decimal
\* integer, parse_toc returns one record per such line, in file order, with the
\* first three fields trimmed and the fourth converted to its integer, and
\* lines with another field count give no record and no error; otherwise
\* parse_toc raises ValueError and returns nothing.
C5_RecordPerNumberedLine ==
    pc # "start" =>
        IF \A i \in FourFieldLines : IsIntLiteral(FieldOf(Toc[i], 4))
        THEN pc = "read" /\ error = "none" /\ FieldsCarried
        ELSE /\ pc = "aborted"
             /\ error = "ValueError: invalid literal for int()"
             /\ sections = <<>>

C5_Witness ==
    /\ pc = "read"
    /\ Len(Toc) = 2
    /\ Cardinality(FourFieldLines) = 2
    /\ \E i \in 1..2 : Toc[i] # WellFormedTocLine /\ FieldOf(Toc[i], 4) = <<"7">>
                       /\ Toc[i][Len(Toc[i]) - 1] = " "
    /\ FieldsCarried

====
